---- MODULE Spec2Model ----
(***************************************************************************)
(* TwiST framework: the Event Bus (Core/EventBus.cpp) and the Servo motion *)
(* engine (Devices/Servo.cpp) as state machines.                           *)
(*                                                                         *)
(* The fixed-capacity tables are scaled down (MAX_EVENT_LISTENERS,         *)
(* MAX_EVENT_QUEUE); all other behaviour follows the source line by line.  *)
(***************************************************************************)
EXTENDS Integers, Sequences, FiniteSets, TLC

\* ------------------------------------------------------------------ bounds
MAX_EVENT_LISTENERS == 2
MAX_EVENT_QUEUE == 2
MaxListenerId == 3
MaxEventCount == 2
MaxTierSteps == 132
MaxTime == 2
MaxMoves == 2
MaxCalibrations == 1
MAX_DEVICES == 2
MaxCycles == 2
MaxEasingSteps == 4

\* --------------------------------------------------------------- constants
PRIORITY_LOW == 0
PRIORITY_NORMAL == 10
PRIORITY_HIGH == 20
PRIORITY_CRITICAL == 30
UINT16 == 65536
UINT8 == 256
PWM_MAX == 4095
PWM_PERIOD_US == 20000
SERVO_CHANNEL == 0
SERVO_ID == 100

NULL == "NULL"
Priorities == {PRIORITY_LOW, PRIORITY_NORMAL, PRIORITY_HIGH, PRIORITY_CRITICAL}
EventNames == {"servo.moved", "servo.move.complete"}
Callbacks == {"cb"}
ListenerSlots == 0 .. (MAX_EVENT_LISTENERS - 1)
QueueSlots == 0 .. (MAX_EVENT_QUEUE - 1)

\* Events a caller hands to publish / publishAsync (payload pointer omitted).
EventInputs ==
    { [name |-> "servo.moved", sourceDeviceId |-> 100,
       priority |-> PRIORITY_LOW, timestamp |-> 0],
      [name |-> "servo.move.complete", sourceDeviceId |-> 100,
       priority |-> PRIORITY_CRITICAL, timestamp |-> 0],
      [name |-> NULL, sourceDeviceId |-> 0,
       priority |-> PRIORITY_NORMAL, timestamp |-> 0] }

\* Arguments a caller hands to subscribe: the valid ones and the two kinds of
\* empty argument.
SubscribeInputs ==
    [eventName : EventNames, listener : Callbacks, priority : Priorities]
    \cup [eventName : {NULL}, listener : Callbacks, priority : {PRIORITY_NORMAL}]
    \cup [eventName : EventNames, listener : {NULL}, priority : {PRIORITY_NORMAL}]

VARIABLES
    listeners,        \* EventBus::_listeners
    listenerCount,    \* EventBus::_listenerCount
    nextListenerId,   \* EventBus::_nextListenerId (uint16_t)
    eventQueue,       \* EventBus::_eventQueue
    queueHead,        \* EventBus::_queueHead
    queueTail,        \* EventBus::_queueTail
    queueSize,        \* EventBus::_queueSize
    totalEventCount,  \* EventBus::_totalEventCount
    shortEnums,       \* build: EventPriority stored in an unsigned 8-bit type
    hung,             \* the control thread is inside a call that never returns
    calls,            \* callbacks invoked by the last operation, in order
    logCalls,         \* Logger calls made by the last operation, in order
    servo,            \* the fields of one Devices::Servo
    pwmWrites,        \* IPWMDriver::setPWM calls made by the last operation
    ghost,            \* history: un-paused time of the running animation
    devices,          \* DeviceRegistry::_devices
    deviceCount,      \* DeviceRegistry::_deviceCount
    deviceObj,        \* the IDevice objects: their enabled flag and state
    deviceCalls,      \* IDevice methods invoked by the last operation, in order
    results,          \* the caller's buffer written by the last findDevices
    initialized,      \* TwiSTFramework::_initialized
    updateCount,      \* TwiSTFramework::_updateCount
    cycle,            \* component calls made by the last TwiSTFramework::update
    op,               \* the last operation and its arguments
    ret,              \* the last operation's return value
    now               \* millis()

busVars == <<listeners, listenerCount, nextListenerId, eventQueue, queueHead,
             queueTail, queueSize, totalEventCount, shortEnums, hung, calls,
             logCalls>>

servoVars == <<servo, pwmWrites, ghost>>

registryVars == <<devices, deviceCount, deviceObj, deviceCalls, results>>

frameworkVars == <<initialized, updateCount, cycle>>

vars == <<busVars, servoVars, registryVars, frameworkVars, op, ret, now>>

\* ------------------------------------------------------ EventBus::EventBus
EmptySubscription ==
    [id |-> 0, eventName |-> NULL, callback |-> NULL,
     priority |-> PRIORITY_NORMAL, active |-> FALSE]

EmptyEvent ==
    [name |-> NULL, sourceDeviceId |-> 0, priority |-> PRIORITY_LOW, timestamp |-> 0]

EventBusInit ==
    /\ listeners = [i \in ListenerSlots |-> EmptySubscription]
    /\ listenerCount = 0
    /\ nextListenerId = 1
    /\ eventQueue = [i \in QueueSlots |-> EmptyEvent]
    /\ queueHead = 0
    /\ queueTail = 0
    /\ queueSize = 0
    /\ totalEventCount = 0
    /\ shortEnums \in BOOLEAN
    /\ hung = FALSE
    /\ calls = <<>>
    /\ logCalls = <<"Initialized">>

\* ------------------------------------------------------- private helpers
eventMatches(eventName, pattern) ==
    IF eventName = NULL \/ pattern = NULL THEN FALSE ELSE eventName = pattern

\* The value of p in the k-th pass of the tier loop (k = 1, 2, ...):
\* p starts at PRIORITY_CRITICAL and each pass ends with
\* p = (EventPriority)(p - 10).  An int-sized enum becomes negative below
\* PRIORITY_LOW; an 8-bit unsigned one wraps to 246.
TierAt(k, wrap) ==
    IF wrap THEN (PRIORITY_CRITICAL - 10 * (k - 1)) % UINT8
    ELSE PRIORITY_CRITICAL - 10 * (k - 1)

\* Number of passes of the tier loop, at most fuel: the loop runs while
\* p >= PRIORITY_LOW.
TierPasses(wrap, fuel) ==
    IF \E k \in 1 .. fuel : ~(TierAt(k, wrap) >= PRIORITY_LOW)
    THEN (CHOOSE k \in 1 .. fuel :
             /\ ~(TierAt(k, wrap) >= PRIORITY_LOW)
             /\ \A j \in 1 .. (k - 1) : TierAt(j, wrap) >= PRIORITY_LOW) - 1
    ELSE fuel

\* The iterations of the nested loops of triggerListeners in execution
\* order (tier pass k outermost, slot i innermost).
LoopIterations(passes) ==
    [n \in 1 .. (passes * MAX_EVENT_LISTENERS) |->
        [k |-> ((n - 1) \div MAX_EVENT_LISTENERS) + 1,
         i |-> (n - 1) % MAX_EVENT_LISTENERS]]

\* triggerListeners: the callbacks invoked, in order, and whether the tier
\* loop exits.  d numbers the dispatches of one publish / processEvents call.
triggerListeners(ls, event, wrap, d) ==
    LET passes == TierPasses(wrap, MaxTierSteps)
        Invokes(it) ==
            /\ ls[it.i].active
            /\ ls[it.i].priority = TierAt(it.k, wrap)
            /\ eventMatches(event.name, ls[it.i].eventName)
            /\ ls[it.i].callback # NULL
        hits == SelectSeq(LoopIterations(passes), Invokes)
    IN  [calls |-> [n \in 1 .. Len(hits) |-> [dispatch |-> d, slot |-> hits[n].i, event |-> event]],
         returned |-> passes < MaxTierSteps]

\* ------------------------------------------------------------ operations
BusIdle == ~hung

FirstFreeSlot(ls) ==
    IF \E i \in ListenerSlots : ~ls[i].active
    THEN CHOOSE i \in ListenerSlots :
            /\ ~ls[i].active
            /\ \A j \in ListenerSlots : j < i => ls[j].active
    ELSE MAX_EVENT_LISTENERS

subscribe(eventName, listener, priority) ==
    /\ BusIdle
    /\ UNCHANGED <<servoVars, registryVars, frameworkVars>>
    /\ nextListenerId <= MaxListenerId \/ nextListenerId >= UINT16 - MaxListenerId
    /\ op' = [name |-> "subscribe", eventName |-> eventName,
              listener |-> listener, priority |-> priority]
    /\ calls' = <<>>
    /\ UNCHANGED <<eventQueue, queueHead, queueTail, queueSize,
                   totalEventCount, shortEnums, hung, now>>
    /\ IF eventName = NULL \/ listener = NULL
       THEN /\ ret' = 0
            /\ logCalls' = <<"Cannot subscribe with NULL eventName or listener">>
            /\ UNCHANGED <<listeners, listenerCount, nextListenerId>>
       ELSE IF listenerCount >= MAX_EVENT_LISTENERS
       THEN /\ ret' = 0
            /\ logCalls' = <<"Listener limit reached">>
            /\ UNCHANGED <<listeners, listenerCount, nextListenerId>>
       ELSE LET i == FirstFreeSlot(listeners) IN
            IF i < MAX_EVENT_LISTENERS
            THEN /\ listeners' = [listeners EXCEPT ![i] =
                        [id |-> nextListenerId, eventName |-> eventName,
                         callback |-> listener, priority |-> priority,
                         active |-> TRUE]]
                 /\ nextListenerId' = (nextListenerId + 1) % UINT16
                 /\ listenerCount' = (listenerCount + 1) % UINT8
                 /\ logCalls' = <<"Subscribed">>
                 /\ ret' = nextListenerId
            ELSE /\ ret' = 0
                 /\ logCalls' = <<>>
                 /\ UNCHANGED <<listeners, listenerCount, nextListenerId>>

DeactivatedSlot(s) ==
    [s EXCEPT !.active = FALSE, !.id = 0, !.eventName = NULL, !.callback = NULL]

\* unsubscribe that frees the slot without counting it.
unsubscribe_uncounted(listenerId) ==
    /\ BusIdle
    /\ UNCHANGED <<servoVars, registryVars, frameworkVars>>
    /\ op' = [name |-> "unsubscribe", listenerId |-> listenerId]
    /\ ret' = 0
    /\ calls' = <<>>
    /\ UNCHANGED <<nextListenerId, eventQueue, queueHead, queueTail, queueSize,
                   totalEventCount, shortEnums, hung, now, listenerCount>>
    /\ IF \E i \in ListenerSlots : listeners[i].active /\ listeners[i].id = listenerId
       THEN LET i == CHOOSE k \in ListenerSlots :
                        /\ listeners[k].active /\ listeners[k].id = listenerId
                        /\ \A j \in ListenerSlots :
                              j < k => ~(listeners[j].active /\ listeners[j].id = listenerId)
            IN  /\ listeners' = [listeners EXCEPT ![i] = DeactivatedSlot(@)]
                /\ logCalls' = <<"Unsubscribed listener">>
       ELSE /\ logCalls' = <<>>
            /\ UNCHANGED listeners

unsubscribe(listenerId) ==
    /\ BusIdle
    /\ UNCHANGED <<servoVars, registryVars, frameworkVars>>
    /\ op' = [name |-> "unsubscribe", listenerId |-> listenerId]
    /\ ret' = 0
    /\ calls' = <<>>
    /\ UNCHANGED <<nextListenerId, eventQueue, queueHead, queueTail, queueSize,
                   totalEventCount, shortEnums, hung, now>>
    /\ IF \E i \in ListenerSlots : listeners[i].active /\ listeners[i].id = listenerId
       THEN LET i == CHOOSE k \in ListenerSlots :
                        /\ listeners[k].active /\ listeners[k].id = listenerId
                        /\ \A j \in ListenerSlots :
                              j < k => ~(listeners[j].active /\ listeners[j].id = listenerId)
            IN  /\ listeners' = [listeners EXCEPT ![i] = DeactivatedSlot(@)]
                /\ listenerCount' = (listenerCount - 1) % UINT8
                /\ logCalls' = <<"Unsubscribed listener">>
       ELSE /\ logCalls' = <<>>
            /\ UNCHANGED <<listeners, listenerCount>>

\* unsubscribeAll that returns after the first match.
unsubscribeAll_first(eventName) ==
    /\ BusIdle
    /\ UNCHANGED <<servoVars, registryVars, frameworkVars>>
    /\ op' = [name |-> "unsubscribeAll", eventName |-> eventName]
    /\ ret' = 0
    /\ calls' = <<>>
    /\ UNCHANGED <<nextListenerId, eventQueue, queueHead, queueTail, queueSize,
                   totalEventCount, shortEnums, hung, now>>
    /\ LET hit == {i \in ListenerSlots :
                      listeners[i].active /\ listeners[i].eventName = eventName}
       IN  IF eventName = NULL \/ hit = {}
           THEN /\ logCalls' = <<>>
                /\ UNCHANGED <<listeners, listenerCount>>
           ELSE LET i == CHOOSE k \in hit : \A j \in hit : k <= j
                IN  /\ listeners' = [listeners EXCEPT ![i] = DeactivatedSlot(@)]
                    /\ listenerCount' = (listenerCount - 1) % UINT8
                    /\ logCalls' = <<"Unsubscribing all">>

unsubscribeAll(eventName) ==
    /\ BusIdle
    /\ UNCHANGED <<servoVars, registryVars, frameworkVars>>
    /\ op' = [name |-> "unsubscribeAll", eventName |-> eventName]
    /\ ret' = 0
    /\ calls' = <<>>
    /\ UNCHANGED <<nextListenerId, eventQueue, queueHead, queueTail, queueSize,
                   totalEventCount, shortEnums, hung, now>>
    /\ IF eventName = NULL
       THEN /\ logCalls' = <<>>
            /\ UNCHANGED <<listeners, listenerCount>>
       ELSE LET hit == {i \in ListenerSlots :
                          listeners[i].active /\ listeners[i].eventName = eventName}
            IN  /\ listeners' = [i \in ListenerSlots |->
                        IF i \in hit THEN DeactivatedSlot(listeners[i]) ELSE listeners[i]]
                /\ listenerCount' = (listenerCount - Cardinality(hit)) % UINT8
                /\ logCalls' = <<"Unsubscribing all">>

\* A subscriber named "cb" only records the event it is given; one named
\* "cbRepublish" hands that event to publishAsync of the same bus.
Republishes(ls, c) == ls[c.slot].callback = "cbRepublish"

\* The queue q = [queue, head, tail, size, logs] after the callbacks cs of one
\* dispatch have run: every republishing callback is one publishAsync(event),
\* which stores the event while there is room and logs a warning otherwise.
RunCallbacks(q, cs, ls, event) ==
    LET k == Cardinality({n \in 1 .. Len(cs) : Republishes(ls, cs[n])})
        free == MAX_EVENT_QUEUE - q.size
        m == IF k < free THEN k ELSE free
    IN  [q EXCEPT
           !.queue = [i \in QueueSlots |->
                        IF (i - q.tail) % MAX_EVENT_QUEUE < m
                        THEN [event EXCEPT !.timestamp = now] ELSE q.queue[i]],
           !.tail = (q.tail + m) % MAX_EVENT_QUEUE,
           !.size = q.size + m,
           !.logs = q.logs \o [n \in 1 .. (k - m) |-> "Event queue full, dropping event"]]

publish(event) ==
    /\ BusIdle
    /\ UNCHANGED <<servoVars, registryVars, frameworkVars>>
    /\ totalEventCount < MaxEventCount
    /\ op' = [name |-> "publish", event |-> event]
    /\ ret' = 0
    /\ UNCHANGED <<listeners, listenerCount, nextListenerId, queueHead,
                   shortEnums, now>>
    /\ IF event.name = NULL
       THEN /\ calls' = <<>>
            /\ logCalls' = <<>>
            /\ UNCHANGED <<totalEventCount, hung, eventQueue, queueTail, queueSize>>
       ELSE LET t == triggerListeners(listeners, event, shortEnums, 1)
                q == RunCallbacks([queue |-> eventQueue, head |-> queueHead,
                                   tail |-> queueTail, size |-> queueSize,
                                   logs |-> <<>>], t.calls, listeners, event)
            IN  /\ totalEventCount' = totalEventCount + 1
                /\ calls' = t.calls
                /\ hung' = ~t.returned
                /\ eventQueue' = q.queue
                /\ queueTail' = q.tail
                /\ queueSize' = q.size
                /\ logCalls' = q.logs

\* publishAsync that stores the event without counting it.
publishAsync_uncounted(event) ==
    /\ BusIdle
    /\ UNCHANGED <<servoVars, registryVars, frameworkVars>>
    /\ totalEventCount + queueSize < MaxEventCount \/ queueSize >= MAX_EVENT_QUEUE
    /\ op' = [name |-> "publishAsync", event |-> event]
    /\ ret' = 0
    /\ calls' = <<>>
    /\ UNCHANGED <<listeners, listenerCount, nextListenerId, totalEventCount,
                   shortEnums, hung, now>>
    /\ IF event.name = NULL
       THEN /\ logCalls' = <<>>
            /\ UNCHANGED <<eventQueue, queueHead, queueTail, queueSize>>
       ELSE IF queueSize >= MAX_EVENT_QUEUE
       THEN /\ logCalls' = <<"Event queue full, dropping event">>
            /\ UNCHANGED <<eventQueue, queueHead, queueTail, queueSize>>
       ELSE /\ eventQueue' = [eventQueue EXCEPT ![queueTail] =
                                 [event EXCEPT !.timestamp = now]]
            /\ queueTail' = (queueTail + 1) % MAX_EVENT_QUEUE
            /\ queueSize' = queueSize
            /\ queueHead' = queueHead
            /\ logCalls' = <<>>

\* publishAsync without the full-queue check: the oldest event is overwritten.
publishAsync_overwrite(event) ==
    /\ BusIdle
    /\ UNCHANGED <<servoVars, registryVars, frameworkVars>>
    /\ totalEventCount + queueSize < MaxEventCount \/ queueSize >= MAX_EVENT_QUEUE
    /\ op' = [name |-> "publishAsync", event |-> event]
    /\ ret' = 0
    /\ calls' = <<>>
    /\ logCalls' = <<>>
    /\ UNCHANGED <<listeners, listenerCount, nextListenerId, totalEventCount,
                   shortEnums, hung, now>>
    /\ IF event.name = NULL
       THEN UNCHANGED <<eventQueue, queueHead, queueTail, queueSize>>
       ELSE /\ eventQueue' = [eventQueue EXCEPT ![queueTail] =
                                 [event EXCEPT !.timestamp = now]]
            /\ queueTail' = (queueTail + 1) % MAX_EVENT_QUEUE
            /\ queueSize' = IF queueSize >= MAX_EVENT_QUEUE THEN queueSize
                            ELSE queueSize + 1
            /\ queueHead' = IF queueSize >= MAX_EVENT_QUEUE
                            THEN (queueHead + 1) % MAX_EVENT_QUEUE ELSE queueHead

publishAsync(event) ==
    /\ BusIdle
    /\ UNCHANGED <<servoVars, registryVars, frameworkVars>>
    /\ totalEventCount + queueSize < MaxEventCount \/ queueSize >= MAX_EVENT_QUEUE
    /\ op' = [name |-> "publishAsync", event |-> event]
    /\ ret' = 0
    /\ calls' = <<>>
    /\ UNCHANGED <<listeners, listenerCount, nextListenerId, totalEventCount,
                   shortEnums, hung, now>>
    /\ IF event.name = NULL
       THEN /\ logCalls' = <<>>
            /\ UNCHANGED <<eventQueue, queueHead, queueTail, queueSize>>
       ELSE IF queueSize >= MAX_EVENT_QUEUE
       THEN /\ logCalls' = <<"Event queue full, dropping event">>
            /\ UNCHANGED <<eventQueue, queueHead, queueTail, queueSize>>
       ELSE /\ eventQueue' = [eventQueue EXCEPT ![queueTail] =
                                 [event EXCEPT !.timestamp = now]]
            /\ queueTail' = (queueTail + 1) % MAX_EVENT_QUEUE
            /\ queueSize' = queueSize + 1
            /\ queueHead' = queueHead
            /\ logCalls' = <<>>

\* What the while loop of processEvents tests and changes: the ring buffer.
LoopState(s) == [queue |-> s.q.queue, head |-> s.q.head, tail |-> s.q.tail, size |-> s.q.size]

\* The while loop of processEvents, from s = [q, total, calls, hung, n, seen]:
\* q is the ring buffer, n counts the dispatches, seen holds the buffer at
\* each earlier test of the loop condition.  A dispatch that does not return
\* ends the walk, and so does a buffer seen before with events in it: from
\* there the loop repeats itself and the call never returns.
RECURSIVE Drain(_)
Drain(s) ==
    IF s.hung \/ ~(s.q.size > 0) THEN s
    ELSE IF LoopState(s) \in s.seen THEN [s EXCEPT !.hung = TRUE]
    ELSE LET event == s.q.queue[s.q.head]
             t == triggerListeners(listeners, event, shortEnums, s.n + 1)
             taken == [s.q EXCEPT !.head = (s.q.head + 1) % MAX_EVENT_QUEUE,
                                  !.size = s.q.size - 1]
         IN  Drain([q |-> RunCallbacks(taken, t.calls, listeners, event),
                    n |-> s.n + 1,
                    total |-> s.total + 1,
                    calls |-> s.calls \o t.calls,
                    hung |-> ~t.returned,
                    seen |-> s.seen \cup {LoopState(s)}])

processEvents ==
    /\ BusIdle
    /\ UNCHANGED <<servoVars, registryVars, frameworkVars>>
    /\ op' = [name |-> "processEvents"]
    /\ ret' = 0
    /\ UNCHANGED <<listeners, listenerCount, nextListenerId, shortEnums, now>>
    /\ LET s == Drain([q |-> [queue |-> eventQueue, head |-> queueHead,
                              tail |-> queueTail, size |-> queueSize, logs |-> <<>>],
                       total |-> totalEventCount, calls |-> <<>>, hung |-> FALSE,
                       n |-> 0, seen |-> {}])
       IN  /\ eventQueue' = s.q.queue
           /\ queueHead' = s.q.head
           /\ queueTail' = s.q.tail
           /\ queueSize' = s.q.size
           /\ totalEventCount' = s.total
           /\ calls' = s.calls
           /\ logCalls' = s.q.logs
           /\ hung' = s.hung

getPendingEventCount == queueSize
getEventCount == totalEventCount
getListenerCount == listenerCount

\* ================================================================== Servo
\* Angles are held in whole degrees: the fraction of an interpolated float
\* angle is dropped.  Times are milliseconds of millis().

\* Devices::Servo::EasingType
EASE_LINEAR == "EASE_LINEAR"
EASE_IN_QUAD == "EASE_IN_QUAD"
EASE_OUT_QUAD == "EASE_OUT_QUAD"
EASE_IN_OUT_QUAD == "EASE_IN_OUT_QUAD"
EASE_IN_CUBIC == "EASE_IN_CUBIC"
EASE_OUT_CUBIC == "EASE_OUT_CUBIC"

\* DeviceState
STATE_UNINITIALIZED == "STATE_UNINITIALIZED"
STATE_INITIALIZING == "STATE_INITIALIZING"
STATE_READY == "STATE_READY"
STATE_DISABLED == "STATE_DISABLED"

\* The member initialisers of class Servo.
ServoInit ==
    [state |-> STATE_UNINITIALIZED, enabled |-> TRUE,
     minPulse |-> 500, maxPulse |-> 2500, minAngle |-> 0, maxAngle |-> 180,
     currentAngle |-> 90,
     useStepMode |-> FALSE, stepMin |-> 0, stepMax |-> 4095,
     stepRange |-> 4095, angleRange |-> 180,
     startAngle |-> 90, targetAngle |-> 90,
     animationStart |-> 0, animationDuration |-> 0,
     easingType |-> EASE_LINEAR,
     isPaused |-> FALSE, pausedAt |-> 0, pausedDuration |-> 0,
     degreesPerSecond |-> 0]

\* (uint16_t)(a / b) of a float quotient: the fraction is dropped.
Trunc(a, b) ==
    IF (a >= 0) = (b > 0) THEN a \div b ELSE -((-a) \div b)

\* applyEasing without the clamp of t to [0,1].
applyEasing_noClamp(tn, td, type) ==
    CASE type = "EASE_LINEAR" -> [num |-> tn, den |-> td]
      [] type = "EASE_IN_QUAD" -> [num |-> tn * tn, den |-> td * td]
      [] type = "EASE_OUT_QUAD" -> [num |-> tn * (2 * td - tn), den |-> td * td]
      [] type = "EASE_IN_OUT_QUAD" ->
            IF 2 * tn < td
            THEN [num |-> 2 * tn * tn, den |-> td * td]
            ELSE [num |-> (4 * td - 2 * tn) * tn - td * td, den |-> td * td]
      [] type = "EASE_IN_CUBIC" -> [num |-> tn * tn * tn, den |-> td * td * td]
      [] type = "EASE_OUT_CUBIC" ->
            [num |-> (tn - td) * (tn - td) * (tn - td) + td * td * td,
             den |-> td * td * td]
      [] OTHER -> [num |-> tn, den |-> td]

\* Servo::applyEasing for t = tn / td: the eased progress as a fraction.
applyEasing(tn, td, type) ==
    LET n == IF tn < 0 THEN 0 ELSE IF tn > td THEN td ELSE tn
    IN  CASE type = EASE_LINEAR -> [num |-> n, den |-> td]
          [] type = EASE_IN_QUAD -> [num |-> n * n, den |-> td * td]
          [] type = EASE_OUT_QUAD -> [num |-> n * (2 * td - n), den |-> td * td]
          [] type = EASE_IN_OUT_QUAD ->
                IF 2 * n < td
                THEN [num |-> 2 * n * n, den |-> td * td]
                ELSE [num |-> (4 * td - 2 * n) * n - td * td, den |-> td * td]
          [] type = EASE_IN_CUBIC -> [num |-> n * n * n, den |-> td * td * td]
          [] type = EASE_OUT_CUBIC ->
                [num |-> (n - td) * (n - td) * (n - td) + td * td * td,
                 den |-> td * td * td]
          [] OTHER -> [num |-> n, den |-> td]

\* mapAngleToPWM whose step mode scales by one step less than the range.
mapAngleToPWM_shortRange(s, angle) ==
    IF s.useStepMode
    THEN (s.stepMin + Trunc((angle - s.minAngle) * (s.stepRange - 1), s.angleRange)) % UINT16
    ELSE Trunc((s.minPulse * (s.maxAngle - s.minAngle)
                  + (angle - s.minAngle) * (s.maxPulse - s.minPulse)) * PWM_MAX,
               PWM_PERIOD_US * (s.maxAngle - s.minAngle)) % UINT16

\* Servo::mapAngleToPWM
mapAngleToPWM(s, angle) ==
    IF s.useStepMode
    THEN (s.stepMin + Trunc((angle - s.minAngle) * s.stepRange, s.angleRange)) % UINT16
    ELSE Trunc((s.minPulse * (s.maxAngle - s.minAngle)
                  + (angle - s.minAngle) * (s.maxPulse - s.minPulse)) * PWM_MAX,
               PWM_PERIOD_US * (s.maxAngle - s.minAngle)) % UINT16

\* The operations below map the Servo s to [s: the Servo afterwards,
\* w: the setPWM calls made].
NoWrite(s) == [s |-> s, w |-> <<>>]

\* setValue without the clamp at maxAngle.
setValue_noUpperClamp(s, angle) ==
    LET a1 == IF angle < s.minAngle THEN s.minAngle ELSE angle
    IN  [s |-> [s EXCEPT !.currentAngle = a1],
         w |-> <<[channel |-> SERVO_CHANNEL, value |-> mapAngleToPWM(s, a1),
                  angle |-> a1]>>]

setValue(s, angle) ==
    LET a1 == IF angle < s.minAngle THEN s.minAngle ELSE angle
        a2 == IF a1 > s.maxAngle THEN s.maxAngle ELSE a1
    IN  [s |-> [s EXCEPT !.currentAngle = a2],
         w |-> <<[channel |-> SERVO_CHANNEL, value |-> mapAngleToPWM(s, a2),
                  angle |-> a2]>>]

setAngle(s, angle) == setValue(s, angle)

\* value = v.num / v.den
setNormalized(s, v) ==
    setValue(s, s.minAngle + Trunc(v.num * (s.maxAngle - s.minAngle), v.den))

initialize(s) ==
    LET r == setValue([s EXCEPT !.state = STATE_INITIALIZING], 90)
    IN  [s |-> [r.s EXCEPT !.state = STATE_READY], w |-> r.w]

shutdown(s) == NoWrite([s EXCEPT !.state = STATE_DISABLED, !.enabled = FALSE])

enable(s) ==
    NoWrite([s EXCEPT !.enabled = TRUE,
                      !.state = IF s.state = STATE_DISABLED THEN STATE_READY ELSE s.state])

disable(s) == NoWrite([s EXCEPT !.enabled = FALSE, !.state = STATE_DISABLED])

isEnabled(s) == s.enabled
getValue(s) == s.currentAngle
isMoving(s) == s.animationDuration > 0

\* A JSON document is a function from the keys it contains to their values.
containsKey(doc, key) == key \in DOMAIN doc

configure(s, config) ==
    NoWrite([s EXCEPT
        !.minPulse = IF containsKey(config, "minPulse") THEN config["minPulse"] ELSE @,
        !.maxPulse = IF containsKey(config, "maxPulse") THEN config["maxPulse"] ELSE @,
        !.minAngle = IF containsKey(config, "minAngle") THEN config["minAngle"] ELSE @,
        !.maxAngle = IF containsKey(config, "maxAngle") THEN config["maxAngle"] ELSE @])

fromJson(s, doc) ==
    LET r == IF containsKey(doc, "angle") THEN setValue(s, doc["angle"]) ELSE NoWrite(s)
    IN  [s |-> [r.s EXCEPT !.enabled =
                    IF containsKey(doc, "enabled") THEN doc["enabled"] ELSE @],
         w |-> r.w]

calibrate(s, minPulse, maxPulse, minAngle, maxAngle) ==
    NoWrite([s EXCEPT !.minPulse = minPulse, !.maxPulse = maxPulse,
                      !.minAngle = minAngle, !.maxAngle = maxAngle,
                      !.useStepMode = FALSE])

calibrateBySteps(s, minStep, maxStep, minAngle, maxAngle) ==
    NoWrite([s EXCEPT !.stepMin = minStep, !.stepMax = maxStep,
                      !.stepRange = maxStep - minStep,
                      !.minAngle = minAngle, !.maxAngle = maxAngle,
                      !.angleRange = maxAngle - minAngle,
                      !.useStepMode = TRUE])

moveTo(s, target, duration, t) ==
    LET s1 == [s EXCEPT !.startAngle = s.currentAngle, !.targetAngle = target,
                        !.animationDuration = duration, !.animationStart = t,
                        !.easingType = EASE_LINEAR, !.pausedDuration = 0,
                        !.isPaused = FALSE]
    IN  IF duration = 0
        THEN LET r == setValue(s1, target)
             IN  [s |-> [r.s EXCEPT !.animationDuration = 0], w |-> r.w]
        ELSE NoWrite(s1)

moveToWithEasing(s, target, duration, easing, t) ==
    NoWrite([s EXCEPT !.startAngle = s.currentAngle, !.targetAngle = target,
                      !.animationDuration = duration, !.animationStart = t,
                      !.easingType = easing, !.pausedDuration = 0,
                      !.isPaused = FALSE])

moveBySteps(s, deltaAngle, stepDuration, t) ==
    moveTo(s, s.currentAngle + deltaAngle, stepDuration, t)

setSpeed(s, degreesPerSecond) ==
    NoWrite([s EXCEPT !.degreesPerSecond = degreesPerSecond])

Abs(x) == IF x < 0 THEN -x ELSE x

moveWithSpeed(s, target, t) ==
    IF s.degreesPerSecond <= 0
    THEN setValue(s, target)
    ELSE moveTo(s, target,
                Trunc(Abs(target - s.currentAngle) * 1000, s.degreesPerSecond), t)

\* stop that snaps to the target before going Idle.
stop_snap(s) ==
    LET r == setValue(s, s.targetAngle)
    IN  [s |-> [r.s EXCEPT !.animationDuration = 0, !.isPaused = FALSE,
                           !.pausedDuration = 0],
         w |-> r.w]

stop(s) ==
    NoWrite([s EXCEPT !.animationDuration = 0, !.isPaused = FALSE,
                      !.pausedDuration = 0])

\* pause without the check for an earlier pause.
pause_unguarded(s, t) ==
    IF s.animationDuration > 0
    THEN NoWrite([s EXCEPT !.isPaused = TRUE, !.pausedAt = t])
    ELSE NoWrite(s)

pause(s, t) ==
    IF s.animationDuration > 0 /\ ~s.isPaused
    THEN NoWrite([s EXCEPT !.isPaused = TRUE, !.pausedAt = t])
    ELSE NoWrite(s)

\* resume that forgets the earlier pauses of the animation.
resume_overwrite(s, t) ==
    IF s.isPaused
    THEN NoWrite([s EXCEPT !.pausedDuration = t - s.pausedAt,
                           !.isPaused = FALSE])
    ELSE NoWrite(s)

resume(s, t) ==
    IF s.isPaused
    THEN NoWrite([s EXCEPT !.pausedDuration = @ + (t - s.pausedAt),
                           !.isPaused = FALSE])
    ELSE NoWrite(s)

\* elapsed = now - _animationStart - _pausedDuration
Elapsed(s, t) == t - s.animationStart - s.pausedDuration

\* update without the test of the paused flag.
update_ignorePause(s, t) ==
    IF ~s.enabled \/ s.state # STATE_READY THEN NoWrite(s)
    ELSE IF s.animationDuration > 0
    THEN LET elapsed == Elapsed(s, t) IN
         IF elapsed >= s.animationDuration
         THEN LET r == setValue(s, s.targetAngle)
              IN  [s |-> [r.s EXCEPT !.animationDuration = 0], w |-> r.w]
         ELSE LET easedT == applyEasing(elapsed, s.animationDuration, s.easingType)
                  angle == s.startAngle
                           + Trunc(easedT.num * (s.targetAngle - s.startAngle), easedT.den)
              IN  setValue(s, angle)
    ELSE NoWrite(s)

\* update that ends the animation where it is, without writing the target.
update_noSnap(s, t) ==
    IF ~s.enabled \/ s.state # STATE_READY THEN NoWrite(s)
    ELSE IF s.isPaused THEN NoWrite(s)
    ELSE IF s.animationDuration > 0
    THEN LET elapsed == Elapsed(s, t) IN
         IF elapsed >= s.animationDuration
         THEN [s |-> [s EXCEPT !.animationDuration = 0], w |-> <<>>]
         ELSE LET easedT == applyEasing(elapsed, s.animationDuration, s.easingType)
                  angle == s.startAngle
                           + Trunc(easedT.num * (s.targetAngle - s.startAngle), easedT.den)
              IN  setValue(s, angle)
    ELSE NoWrite(s)

update(s, t) ==
    IF ~s.enabled \/ s.state # STATE_READY THEN NoWrite(s)
    ELSE IF s.isPaused THEN NoWrite(s)
    ELSE IF s.animationDuration > 0
    THEN LET elapsed == Elapsed(s, t) IN
         IF elapsed >= s.animationDuration
         THEN LET r == setValue(s, s.targetAngle)
              IN  [s |-> [r.s EXCEPT !.animationDuration = 0], w |-> r.w]
         ELSE LET easedT == applyEasing(elapsed, s.animationDuration, s.easingType)
                  angle == s.startAngle
                           + Trunc(easedT.num * (s.targetAngle - s.startAngle), easedT.den)
              IN  setValue(s, angle)
    ELSE NoWrite(s)

getRemainingTime(s, t) ==
    IF s.animationDuration = 0 THEN 0
    ELSE IF Elapsed(s, t) >= s.animationDuration THEN 0
    ELSE s.animationDuration - Elapsed(s, t)

\* Servo::getProgress as a fraction
getProgress(s, t) ==
    IF s.animationDuration = 0 THEN [num |-> 1, den |-> 1]
    ELSE IF Elapsed(s, t) >= s.animationDuration THEN [num |-> 1, den |-> 1]
    ELSE [num |-> Elapsed(s, t), den |-> s.animationDuration]

\* ------------------------------------------------------- Servo actions
\* History: the time the running animation has spent un-paused since its
\* move began, the number of its resumes (counted up to two), the numbers
\* of move commands and of calibration commands issued so far, and the target
\* handed to the last move command.
GhostInit == [activeElapsed |-> 0, resumes |-> 0, moves |-> 0, calibrations |-> 0,
              target |-> 90]

MoveCommands == {"moveTo", "moveToWithEasing", "moveBySteps", "moveWithSpeed"}
CalibrationCommands == {"calibrate", "calibrateBySteps", "configure"}

CommandTarget(call) ==
    IF call.name = "moveBySteps" THEN servo.currentAngle + call.deltaAngle
    ELSE call.target

GhostAfter(call, s2) ==
    IF call.name \in MoveCommands
    THEN IF call.name = "moveWithSpeed" /\ servo.degreesPerSecond <= 0
         THEN [ghost EXCEPT !.moves = @ + 1, !.target = CommandTarget(call)]
         ELSE [ghost EXCEPT !.activeElapsed = 0, !.resumes = 0, !.moves = @ + 1,
                            !.target = CommandTarget(call)]
    ELSE IF call.name \in CalibrationCommands
    THEN [ghost EXCEPT !.calibrations = @ + 1]
    ELSE IF call.name = "resume" /\ servo.isPaused
    THEN [ghost EXCEPT !.resumes = IF @ < 2 THEN @ + 1 ELSE @]
    ELSE ghost

ServoCall(call, r) ==
    /\ BusIdle
    /\ call.name \in MoveCommands => ghost.moves < MaxMoves
    /\ call.name \in CalibrationCommands => ghost.calibrations < MaxCalibrations
    /\ op' = call
    /\ servo' = r.s
    /\ pwmWrites' = r.w
    /\ ghost' = GhostAfter(call, r.s)
    /\ ret' = 0
    /\ UNCHANGED <<busVars, registryVars, frameworkVars, now>>

AngleInputs == {-20, 200}
TargetInputs == {60, 200}
DurationInputs == {0, 2}
EasingInputs == {EASE_OUT_CUBIC}
SpeedInputs == {0, 20000}
NormalizedInputs == {[num |-> 3, den |-> 2]}
ConfigInputs == { [minAngle |-> 10], [minPulse |-> 600, maxPulse |-> 2400, maxAngle |-> 100] }
JsonInputs == { [angle |-> 200], [enabled |-> FALSE] }

Initialize == ServoCall([name |-> "initialize"], initialize(servo))
Shutdown == ServoCall([name |-> "shutdown"], shutdown(servo))
Enable == ServoCall([name |-> "enable"], enable(servo))
Disable == ServoCall([name |-> "disable"], disable(servo))
Configure == \E c \in ConfigInputs :
    ServoCall([name |-> "configure", config |-> c], configure(servo, c))
FromJson == \E d \in JsonInputs :
    ServoCall([name |-> "fromJson", doc |-> d], fromJson(servo, d))
SetValue == \E a \in AngleInputs :
    ServoCall([name |-> "setValue", angle |-> a], setValue(servo, a))
SetAngle == \E a \in {200} :
    ServoCall([name |-> "setAngle", angle |-> a], setAngle(servo, a))
SetNormalized == \E v \in NormalizedInputs :
    ServoCall([name |-> "setNormalized", value |-> v], setNormalized(servo, v))
Calibrate ==
    ServoCall([name |-> "calibrate"], calibrate(servo, 600, 2400, 30, 150))
CalibrateBySteps ==
    ServoCall([name |-> "calibrateBySteps"], calibrateBySteps(servo, 110, 540, 0, 120))
MoveTo == \E a \in TargetInputs, d \in DurationInputs :
    ServoCall([name |-> "moveTo", target |-> a, duration |-> d], moveTo(servo, a, d, now))
MoveToWithEasing == \E a \in TargetInputs, d \in DurationInputs, e \in EasingInputs :
    ServoCall([name |-> "moveToWithEasing", target |-> a, duration |-> d, easing |-> e],
              moveToWithEasing(servo, a, d, e, now))
MoveBySteps == \E d \in {0} :
    ServoCall([name |-> "moveBySteps", deltaAngle |-> 30, duration |-> d],
              moveBySteps(servo, 30, d, now))
SetSpeed == \E v \in SpeedInputs :
    ServoCall([name |-> "setSpeed", degreesPerSecond |-> v], setSpeed(servo, v))
MoveWithSpeed == \E a \in {60} :
    ServoCall([name |-> "moveWithSpeed", target |-> a], moveWithSpeed(servo, a, now))
Stop == ServoCall([name |-> "stop"], stop(servo))
Pause == ServoCall([name |-> "pause"], pause(servo, now))
Resume == ServoCall([name |-> "resume"], resume(servo, now))
Update == ServoCall([name |-> "update"], update(servo, now))

\* millis() advances by one; op keeps naming the last operation.
Tick ==
    /\ BusIdle
    /\ now < MaxTime
    /\ now' = now + 1
    /\ ghost' = IF servo.animationDuration > 0 /\ ~servo.isPaused
                THEN [ghost EXCEPT !.activeElapsed = @ + 1] ELSE ghost
    /\ UNCHANGED <<busVars, registryVars, frameworkVars, servo, pwmWrites, op, ret>>

\* The motion engine under the default calibration.
NextServo ==
    \/ Initialize \/ Disable \/ Enable
    \/ SetValue
    \/ MoveTo \/ MoveToWithEasing
    \/ Stop \/ Pause \/ Resume \/ Update
    \/ Tick

\* Every operation that writes to the driver, under every calibration call.
NextServoWrites ==
    \/ Initialize
    \/ Configure \/ FromJson
    \/ SetValue \/ SetAngle \/ SetNormalized
    \/ Calibrate \/ CalibrateBySteps
    \/ MoveTo \/ MoveBySteps \/ MoveWithSpeed
    \/ Update
    \/ Tick

\* ------------------------------------------- step calibration and easing
\* calibrateBySteps(minStep, maxStep, minAngle, maxAngle) with maxStep > minStep
\* and maxAngle > minAngle.
StepCalibrationInputs ==
    { [minStep |-> 110, maxStep |-> 540, minAngle |-> 0, maxAngle |-> 120],
      [minStep |-> 150, maxStep |-> 600, minAngle |-> 30, maxAngle |-> 150],
      [minStep |-> 0, maxStep |-> 4095, minAngle |-> -90, maxAngle |-> 90],
      [minStep |-> 300, maxStep |-> 301, minAngle |-> 0, maxAngle |-> 180] }

FineAngleInputs == {-120, -90, -45, 0, 1, 30, 45, 89, 90, 119, 120, 150, 179, 180, 200}

CalibrateByStepsAny == \E c \in StepCalibrationInputs :
    ServoCall([name |-> "calibrateBySteps", minStep |-> c.minStep, maxStep |-> c.maxStep,
               minAngle |-> c.minAngle, maxAngle |-> c.maxAngle],
              calibrateBySteps(servo, c.minStep, c.maxStep, c.minAngle, c.maxAngle))

SetValueAny == \E a \in FineAngleInputs :
    ServoCall([name |-> "setValue", angle |-> a], setValue(servo, a))

NextStepCalibration ==
    \/ Initialize
    \/ CalibrateByStepsAny
    \/ SetValueAny

\* applyEasing(t, type) for t = tn / td; the selector may be none of the six.
EasingSelectors ==
    {EASE_LINEAR, EASE_IN_QUAD, EASE_OUT_QUAD, EASE_IN_OUT_QUAD, EASE_IN_CUBIC,
     EASE_OUT_CUBIC, "EASE_UNKNOWN"}

ApplyEasing ==
    \E td \in 1 .. MaxEasingSteps, type \in EasingSelectors :
        \E tn \in -1 .. td + 1 :
            /\ op' = [name |-> "applyEasing", tn |-> tn, td |-> td, type |-> type]
            /\ ret' = applyEasing(tn, td, type)
            /\ UNCHANGED <<busVars, servoVars, registryVars, frameworkVars, now>>

\* ------------------------------------------------------------ IDevice
CAP_INPUT == "CAP_INPUT"
CAP_OUTPUT == "CAP_OUTPUT"
CAP_ANALOG == "CAP_ANALOG"
CAP_POSITION == "CAP_POSITION"
CAP_CONFIGURABLE == "CAP_CONFIGURABLE"
STATE_ERROR == "STATE_ERROR"

\* The IDevice objects the application owns (the pointers it can pass).
DeviceObjects == {"servoA", "sensorB", "stickC", "servoD"}

\* IDevice::getInfo of each object: servoD was given the id of servoA,
\* stickC the name of servoA; a capability bitmask is the set of its bits.
getInfo(d) ==
    CASE d = "servoA" -> [type |-> "Servo", name |-> "pan", id |-> 100,
                          capabilities |-> {CAP_OUTPUT, CAP_POSITION, CAP_CONFIGURABLE}]
      [] d = "sensorB" -> [type |-> "DistanceSensor", name |-> "front", id |-> 200,
                           capabilities |-> {CAP_INPUT, CAP_ANALOG}]
      [] d = "stickC" -> [type |-> "Joystick", name |-> "pan", id |-> 300,
                          capabilities |-> {CAP_INPUT, CAP_OUTPUT, CAP_ANALOG}]
      [] d = "servoD" -> [type |-> "Servo", name |-> "tilt", id |-> 100,
                          capabilities |-> {CAP_CONFIGURABLE}]

\* hasCapability: (getCapabilities() & cap) != 0
hasCapability(d, cap) == cap \in getInfo(d).capabilities

\* The hardware of sensorB does not answer: its initialize() reports failure.
InitializeSucceeds(d) == d # "sensorB"

DeviceObjInit == [d \in DeviceObjects |-> [enabled |-> TRUE, state |-> STATE_UNINITIALIZED]]

deviceInitialize(o, d) ==
    IF InitializeSucceeds(d) THEN [o EXCEPT !.state = STATE_READY]
    ELSE [o EXCEPT !.state = STATE_ERROR]

deviceEnable(o) ==
    [o EXCEPT !.enabled = TRUE,
              !.state = IF o.state = STATE_DISABLED THEN STATE_READY ELSE o.state]

deviceDisable(o) == [o EXCEPT !.enabled = FALSE, !.state = STATE_DISABLED]

\* ------------------------------------------------------- DeviceRegistry
DeviceSlots == 0 .. MAX_DEVICES - 1
DeviceIds == {0, 100, 200, 300, 400}
DeviceNames == {"pan", "front", "tilt", "none"}

RegistryInit ==
    /\ devices = [i \in DeviceSlots |-> NULL]
    /\ deviceCount = 0
    /\ deviceObj = DeviceObjInit
    /\ deviceCalls = <<>>
    /\ results = <<>>

\* A registry method that calls no IDevice method with an effect and leaves
\* the caller's buffer alone.
RegistryQuiet == /\ deviceCalls' = <<>>
                 /\ UNCHANGED <<deviceObj, results>>

RegistryFrame == UNCHANGED <<busVars, servoVars, frameworkVars, now>>

\* for (i = 0; i < _deviceCount; i++) if (_devices[i] && id matches) return
findDevice(deviceId) ==
    LET hits == {i \in 0 .. deviceCount - 1 :
                    devices[i] # NULL /\ getInfo(devices[i]).id = deviceId}
    IN  IF hits = {} THEN NULL
        ELSE devices[CHOOSE i \in hits : \A j \in hits : i <= j]

\* findDeviceByName that keeps scanning and returns the last match.
findDeviceByName_last(name) ==
    IF name = NULL THEN NULL
    ELSE LET hits == {i \in 0 .. deviceCount - 1 :
                         devices[i] # NULL /\ getInfo(devices[i]).name = name}
         IN  IF hits = {} THEN NULL
             ELSE devices[CHOOSE i \in hits : \A j \in hits : i >= j]

findDeviceByName(name) ==
    IF name = NULL THEN NULL
    ELSE LET hits == {i \in 0 .. deviceCount - 1 :
                         devices[i] # NULL /\ getInfo(devices[i]).name = name}
         IN  IF hits = {} THEN NULL
             ELSE devices[CHOOSE i \in hits : \A j \in hits : i <= j]

\* registerDevice without the duplicate-id check.
registerDevice_noDuplicateCheck(device) ==
    /\ RegistryFrame
    /\ RegistryQuiet
    /\ op' = [name |-> "registerDevice", device |-> device]
    /\ IF device = NULL \/ deviceCount >= MAX_DEVICES
       THEN /\ ret' = FALSE
            /\ UNCHANGED <<devices, deviceCount>>
       ELSE /\ devices' = [devices EXCEPT ![deviceCount] = device]
            /\ deviceCount' = deviceCount + 1
            /\ ret' = TRUE

registerDevice(device) ==
    /\ RegistryFrame
    /\ RegistryQuiet
    /\ op' = [name |-> "registerDevice", device |-> device]
    /\ IF device = NULL \/ deviceCount >= MAX_DEVICES
          \/ findDevice(getInfo(device).id) # NULL
       THEN /\ ret' = FALSE
            /\ UNCHANGED <<devices, deviceCount>>
       ELSE /\ devices' = [devices EXCEPT ![deviceCount] = device]
            /\ deviceCount' = deviceCount + 1
            /\ ret' = TRUE

\* unregisterDevice that clears the slot without shifting the rest down.
\* unregisterDevice that drops the device of the last slot when the id is found.
unregisterDevice_last(deviceId) ==
    /\ RegistryFrame
    /\ RegistryQuiet
    /\ op' = [name |-> "unregisterDevice", id |-> deviceId]
    /\ LET hits == {i \in 0 .. deviceCount - 1 :
                       devices[i] # NULL /\ getInfo(devices[i]).id = deviceId}
       IN  IF hits = {}
           THEN /\ ret' = FALSE
                /\ UNCHANGED <<devices, deviceCount>>
           ELSE /\ devices' = [devices EXCEPT ![deviceCount - 1] = NULL]
                /\ deviceCount' = deviceCount - 1
                /\ ret' = TRUE

unregisterDevice_noShift(deviceId) ==
    /\ RegistryFrame
    /\ RegistryQuiet
    /\ op' = [name |-> "unregisterDevice", id |-> deviceId]
    /\ LET hits == {i \in 0 .. deviceCount - 1 :
                       devices[i] # NULL /\ getInfo(devices[i]).id = deviceId}
       IN  IF hits = {}
           THEN /\ ret' = FALSE
                /\ UNCHANGED <<devices, deviceCount>>
           ELSE LET i == CHOOSE k \in hits : \A j \in hits : k <= j
                IN  /\ devices' = [devices EXCEPT ![i] = NULL]
                    /\ deviceCount' = deviceCount - 1
                    /\ ret' = TRUE

unregisterDevice(deviceId) ==
    /\ RegistryFrame
    /\ RegistryQuiet
    /\ op' = [name |-> "unregisterDevice", id |-> deviceId]
    /\ LET hits == {i \in 0 .. deviceCount - 1 :
                       devices[i] # NULL /\ getInfo(devices[i]).id = deviceId}
       IN  IF hits = {}
           THEN /\ ret' = FALSE
                /\ UNCHANGED <<devices, deviceCount>>
           ELSE LET i == CHOOSE k \in hits : \A j \in hits : k <= j
                IN  /\ devices' = [j \in DeviceSlots |->
                                     IF j >= i /\ j < deviceCount - 1 THEN devices[j + 1]
                                     ELSE IF j = deviceCount - 1 THEN NULL
                                     ELSE devices[j]]
                    /\ deviceCount' = deviceCount - 1
                    /\ ret' = TRUE

unregisterAll ==
    /\ RegistryFrame
    /\ RegistryQuiet
    /\ op' = [name |-> "unregisterAll"]
    /\ devices' = [i \in DeviceSlots |-> NULL]
    /\ deviceCount' = 0
    /\ ret' = 0

matchesFilter(device, filter) ==
    IF device = NULL THEN FALSE
    ELSE LET info == getInfo(device) IN
         IF filter.type # NULL /\ info.type # filter.type THEN FALSE
         ELSE IF filter.capabilities # {}
                 /\ info.capabilities \cap filter.capabilities = {} THEN FALSE
         ELSE IF filter.state # STATE_UNINITIALIZED
                 /\ deviceObj[device].state # filter.state THEN FALSE
         ELSE TRUE

\* for (i = 0; i < _deviceCount && count < maxResults; i++): buf holds the
\* entries written so far, count = Len(buf).
RECURSIVE FindLoop(_, _, _, _)
FindLoop(i, buf, filter, maxResults) ==
    IF ~(i < deviceCount /\ Len(buf) < maxResults) THEN buf
    ELSE IF devices[i] # NULL /\ matchesFilter(devices[i], filter)
         THEN FindLoop(i + 1, Append(buf, devices[i]), filter, maxResults)
         ELSE FindLoop(i + 1, buf, filter, maxResults)

findDevices(filter, maxResults) ==
    /\ RegistryFrame
    /\ op' = [name |-> "findDevices", filter |-> filter, maxResults |-> maxResults]
    /\ results' = FindLoop(0, <<>>, filter, maxResults)
    /\ ret' = Len(results')
    /\ deviceCalls' = <<>>
    /\ UNCHANGED <<devices, deviceCount, deviceObj>>

getDeviceCount == deviceCount

\* getInputDeviceCount whose loop stops one slot early.
getInputDeviceCount_skipLast ==
    Cardinality({i \in 0 .. deviceCount - 2 :
                    devices[i] # NULL /\ hasCapability(devices[i], CAP_INPUT)})

getInputDeviceCount ==
    Cardinality({i \in 0 .. deviceCount - 1 :
                    devices[i] # NULL /\ hasCapability(devices[i], CAP_INPUT)})

getOutputDeviceCount ==
    Cardinality({i \in 0 .. deviceCount - 1 :
                    devices[i] # NULL /\ hasCapability(devices[i], CAP_OUTPUT)})

\* getInputDevice that casts without looking at the capability.
getInputDevice_unchecked(deviceId) == findDevice(deviceId)

getInputDevice(deviceId) ==
    LET device == findDevice(deviceId)
    IN  IF device # NULL /\ hasCapability(device, CAP_INPUT) THEN device ELSE NULL

getOutputDevice(deviceId) ==
    LET device == findDevice(deviceId)
    IN  IF device # NULL /\ hasCapability(device, CAP_OUTPUT) THEN device ELSE NULL

\* A lookup: the answer is returned, nothing is written.
RegistryLookup(call, answer) ==
    /\ RegistryFrame
    /\ RegistryQuiet
    /\ op' = call
    /\ ret' = answer
    /\ UNCHANGED <<devices, deviceCount>>

\* The loop of initializeAll from slot i, acc = [obj, calls, allSuccess].
RECURSIVE InitLoop(_, _)
InitLoop(i, acc) ==
    IF ~(i < deviceCount) THEN acc
    ELSE IF devices[i] = NULL THEN InitLoop(i + 1, acc)
    ELSE LET d == devices[i] IN
         InitLoop(i + 1,
             [obj |-> [acc.obj EXCEPT ![d] = deviceInitialize(@, d)],
              calls |-> Append(acc.calls, [device |-> d, method |-> "initialize"]),
              allSuccess |-> IF InitializeSucceeds(d) THEN acc.allSuccess ELSE FALSE])

\* initializeAll that returns at the first device that fails.
initializeAll_abort ==
    /\ RegistryFrame
    /\ op' = [name |-> "initializeAll"]
    /\ LET all == InitLoop(0, [obj |-> deviceObj, calls |-> <<>>, allSuccess |-> TRUE])
           failed == {k \in 1 .. Len(all.calls) : ~InitializeSucceeds(all.calls[k].device)}
           last == IF failed = {} THEN Len(all.calls)
                   ELSE CHOOSE k \in failed : \A j \in failed : k <= j
           made == SubSeq(all.calls, 1, last)
       IN  /\ deviceCalls' = made
           /\ deviceObj' = [d \in DeviceObjects |->
                               IF \E k \in 1 .. last : made[k].device = d
                               THEN all.obj[d] ELSE deviceObj[d]]
           /\ ret' = all.allSuccess
    /\ UNCHANGED <<devices, deviceCount, results>>

initializeAll ==
    /\ RegistryFrame
    /\ op' = [name |-> "initializeAll"]
    /\ LET r == InitLoop(0, [obj |-> deviceObj, calls |-> <<>>, allSuccess |-> TRUE])
       IN  /\ deviceObj' = r.obj
           /\ deviceCalls' = r.calls
           /\ ret' = r.allSuccess
    /\ UNCHANGED <<devices, deviceCount, results>>

\* The loop of updateAll from slot i: the update() calls it makes.
RECURSIVE UpdateLoop(_, _)
UpdateLoop(i, done) ==
    IF ~(i < deviceCount) THEN done
    ELSE IF devices[i] # NULL /\ deviceObj[devices[i]].enabled
         THEN UpdateLoop(i + 1, Append(done, [device |-> devices[i], method |-> "update"]))
         ELSE UpdateLoop(i + 1, done)

\* updateAll that does not ask isEnabled().
updateAll_all ==
    /\ RegistryFrame
    /\ op' = [name |-> "updateAll"]
    /\ deviceCalls' = [k \in 1 .. deviceCount |-> [device |-> devices[k - 1], method |-> "update"]]
    /\ ret' = 0
    /\ UNCHANGED <<devices, deviceCount, deviceObj, results>>

updateAll ==
    /\ RegistryFrame
    /\ op' = [name |-> "updateAll"]
    /\ deviceCalls' = UpdateLoop(0, <<>>)
    /\ ret' = 0
    /\ UNCHANGED <<devices, deviceCount, deviceObj, results>>

\* The application enabling or disabling one of its devices directly.
deviceSwitch(d, on) ==
    /\ RegistryFrame
    /\ op' = [name |-> IF on THEN "device.enable" ELSE "device.disable", device |-> d]
    /\ deviceObj' = [deviceObj EXCEPT ![d] = IF on THEN deviceEnable(@) ELSE deviceDisable(@)]
    /\ deviceCalls' = <<[device |-> d, method |-> IF on THEN "enable" ELSE "disable"]>>
    /\ ret' = 0
    /\ UNCHANGED <<devices, deviceCount, results>>

\* for (i = 0; i < _deviceCount; i++) of forEach(filter, callback): done
\* holds the devices handed to the callback so far.
RECURSIVE ForEachLoop(_, _, _)
ForEachLoop(i, done, filter) ==
    IF ~(i < deviceCount) THEN done
    ELSE IF devices[i] # NULL /\ matchesFilter(devices[i], filter)
         THEN ForEachLoop(i + 1, Append(done, devices[i]), filter)
         ELSE ForEachLoop(i + 1, done, filter)

\* DeviceRegistry::forEach(DeviceFilter, DeviceCallback); the callback only
\* records the device it is given.
forEach(filter, callback) ==
    /\ RegistryFrame
    /\ op' = [name |-> "forEach", filter |-> filter, callback |-> callback]
    /\ results' = IF callback = NULL THEN <<>> ELSE ForEachLoop(0, <<>>, filter)
    /\ deviceCalls' = [k \in 1 .. Len(results') |->
                          [device |-> results'[k], method |-> "callback"]]
    /\ ret' = 0
    /\ UNCHANGED <<devices, deviceCount, deviceObj>>

FilterInputs ==
    {[type |-> NULL, capabilities |-> {}, state |-> STATE_UNINITIALIZED],
     [type |-> "Servo", capabilities |-> {}, state |-> STATE_UNINITIALIZED],
     [type |-> NULL, capabilities |-> {CAP_INPUT, CAP_POSITION}, state |-> STATE_READY]}

RegisterDevice == \E d \in DeviceObjects \cup {NULL} : registerDevice(d)
UnregisterDevice == \E id \in DeviceIds : unregisterDevice(id)
UnregisterAll == unregisterAll
FindDevice == \E id \in DeviceIds : RegistryLookup([name |-> "findDevice", id |-> id], findDevice(id))
FindDeviceByName ==
    \E n \in DeviceNames \cup {NULL} :
        RegistryLookup([name |-> "findDeviceByName", arg |-> n], findDeviceByName(n))
FindDevices == \E f \in FilterInputs, m \in {0, 1, MAX_DEVICES} : findDevices(f, m)
ForEach ==
    \E f \in FilterInputs \cup {[type |-> NULL, capabilities |-> {}, state |-> STATE_ERROR]},
       cb \in {NULL, "cb"} : forEach(f, cb)
GetInputDevice ==
    \E id \in DeviceIds : RegistryLookup([name |-> "getInputDevice", id |-> id], getInputDevice(id))
GetOutputDevice ==
    \E id \in DeviceIds : RegistryLookup([name |-> "getOutputDevice", id |-> id], getOutputDevice(id))
InitializeAll == initializeAll
UpdateAll == updateAll
DeviceDisable == \E d \in DeviceObjects : deviceSwitch(d, FALSE)
DeviceEnable == \E d \in DeviceObjects : deviceSwitch(d, TRUE)

\* ------------------------------------------------------- TwiSTFramework
FrameworkInit ==
    /\ initialized = FALSE
    /\ updateCount = 0
    /\ cycle = <<>>

\* TwiSTFramework::initialize: ConfigManager::initialize succeeds or fails.
frameworkInitialize(configOk) ==
    /\ BusIdle
    /\ op' = [name |-> "framework.initialize", configOk |-> configOk]
    /\ ret' = configOk
    /\ initialized' = IF configOk THEN TRUE ELSE initialized
    /\ UNCHANGED <<busVars, servoVars, registryVars, updateCount, cycle, now>>

\* TwiSTFramework::update: the event queue is processed, then the devices
\* are updated (no bridge is attached).
frameworkUpdate ==
    /\ BusIdle
    /\ updateCount < MaxCycles
    /\ op' = [name |-> "framework.update"]
    /\ ret' = 0
    /\ UNCHANGED <<servoVars, devices, deviceCount, deviceObj, results, initialized, now,
                   listeners, listenerCount, nextListenerId, shortEnums>>
    /\ IF ~initialized
       THEN /\ cycle' = <<>>
            /\ deviceCalls' = <<>>
            /\ calls' = <<>>
            /\ logCalls' = <<>>
            /\ UNCHANGED <<updateCount, eventQueue, queueHead, queueTail, queueSize,
                           totalEventCount, hung>>
       ELSE LET s == Drain([q |-> [queue |-> eventQueue, head |-> queueHead,
                                   tail |-> queueTail, size |-> queueSize,
                                   logs |-> <<>>],
                            total |-> totalEventCount, calls |-> <<>>,
                            hung |-> FALSE, n |-> 0, seen |-> {}])
            IN  /\ updateCount' = updateCount + 1
                /\ eventQueue' = s.q.queue
                /\ queueHead' = s.q.head
                /\ queueTail' = s.q.tail
                /\ queueSize' = s.q.size
                /\ totalEventCount' = s.total
                /\ calls' = s.calls
                /\ hung' = s.hung
                /\ logCalls' = s.q.logs
                /\ cycle' = IF s.hung THEN <<"processEvents">>
                            ELSE <<"processEvents", "updateAll">>
                /\ deviceCalls' = IF s.hung THEN <<>> ELSE UpdateLoop(0, <<>>)

FrameworkInitialize == \E ok \in BOOLEAN : frameworkInitialize(ok)
FrameworkUpdate == frameworkUpdate

\* --------------------------------------------------------- specification
Init ==
    /\ EventBusInit
    /\ servo = ServoInit
    /\ pwmWrites = <<>>
    /\ ghost = GhostInit
    /\ RegistryInit
    /\ FrameworkInit
    /\ op = [name |-> "init"]
    /\ ret = 0
    /\ now = 0

\* The Servo never calls the bus: one build of the bus stands for both.
InitServo == Init /\ shortEnums = FALSE

Subscribe == \E a \in SubscribeInputs : subscribe(a.eventName, a.listener, a.priority)
Unsubscribe == \E id \in 0 .. MaxListenerId : unsubscribe(id)
UnsubscribeAll == \E n \in EventNames \cup {NULL} : unsubscribeAll(n)
Publish == \E e \in EventInputs : publish(e)
PublishAsync == \E e \in EventInputs : publishAsync(e)
ProcessEvents == processEvents

\* The empty string is a name the caller can pass: it is not NULL.
SubscribeEmptyName == subscribe("", "cb", PRIORITY_NORMAL)

NextBus ==
    \/ Subscribe
    \/ Unsubscribe
    \/ UnsubscribeAll
    \/ Publish
    \/ PublishAsync
    \/ ProcessEvents

SpecBus == Init /\ [][NextBus]_vars

\* The subscription table alone, with the empty name among the inputs.
NextSubscribe ==
    \/ Subscribe
    \/ SubscribeEmptyName
    \/ Unsubscribe

SpecSubscribe == Init /\ [][NextSubscribe]_vars

\* The subscription table with removal by name, in the build whose tier
\* loop exits.
NextTable ==
    \/ Subscribe
    \/ Unsubscribe
    \/ UnsubscribeAll
    \/ Publish

SpecTable == InitServo /\ [][NextTable]_vars

\* A bus that has been running for a long time: subscribe has been called
\* UINT16 - MaxListenerId times, so the 16-bit id counter is about to wrap;
\* every subscription but, possibly, the first one (id 1, still active in
\* slot 0) has been removed again.
EventBusLate ==
    /\ \E kept \in BOOLEAN :
          /\ listeners = [i \in ListenerSlots |->
                            IF kept /\ i = 0
                            THEN [id |-> 1, eventName |-> "servo.moved", callback |-> "cb",
                                  priority |-> PRIORITY_NORMAL, active |-> TRUE]
                            ELSE EmptySubscription]
          /\ listenerCount = IF kept THEN 1 ELSE 0
    /\ nextListenerId = UINT16 - MaxListenerId + 1
    /\ eventQueue = [i \in QueueSlots |-> EmptyEvent]
    /\ queueHead = 0
    /\ queueTail = 0
    /\ queueSize = 0
    /\ totalEventCount = 0
    /\ shortEnums = FALSE
    /\ hung = FALSE
    /\ calls = <<>>
    /\ logCalls = <<>>

InitLate ==
    /\ EventBusLate
    /\ servo = ServoInit
    /\ pwmWrites = <<>>
    /\ ghost = GhostInit
    /\ RegistryInit
    /\ FrameworkInit
    /\ op = [name |-> "running"]
    /\ ret = 0
    /\ now = 0

SpecIds == InitLate /\ [][NextTable]_vars

\* The empty string is a name an event can carry: it is not NULL.
PublishEmptyName ==
    publish([name |-> "", sourceDeviceId |-> 0, priority |-> PRIORITY_NORMAL,
             timestamp |-> 0])

NextEmptyName ==
    \/ Subscribe
    \/ SubscribeEmptyName
    \/ Publish
    \/ PublishEmptyName

SpecEmptyName == InitServo /\ [][NextEmptyName]_vars

\* A subscriber whose callback calls publishAsync with the event it receives.
SubscribeRepublisher ==
    \E n \in EventNames : subscribe(n, "cbRepublish", PRIORITY_NORMAL)

\* Deferred delivery to subscribers that may publish again.
NextRepublish ==
    \/ Subscribe
    \/ SubscribeRepublisher
    \/ Unsubscribe
    \/ PublishAsync
    \/ ProcessEvents

SpecRepublish == InitServo /\ [][NextRepublish]_vars

\* The ring buffer under subscribers of both kinds.
SubscribeRecorder ==
    \E n \in EventNames : subscribe(n, "cb", PRIORITY_NORMAL)

NextRing ==
    \/ SubscribeRecorder
    \/ SubscribeRepublisher
    \/ PublishAsync
    \/ ProcessEvents

SpecRing == InitServo /\ [][NextRing]_vars

\* The long-running bus with subscriptions coming and going only.
NextSubscriptions ==
    \/ SubscribeRecorder
    \/ Unsubscribe
    \/ UnsubscribeAll

SpecSubscriptions == InitLate /\ [][NextSubscriptions]_vars

\* The ring buffer: the deferred path beside the immediate one.
NextQueue ==
    \/ Publish
    \/ PublishAsync
    \/ ProcessEvents

SpecQueue == Init /\ [][NextQueue]_vars

SpecServo == InitServo /\ [][NextServo]_vars

SpecServoWrites == InitServo /\ [][NextServoWrites]_vars

\* The control loop runs forever: update() keeps being called and millis()
\* keeps advancing (up to the horizon MaxTime).  The servo has been
\* initialized and is enabled.
InitReady ==
    /\ EventBusInit
    /\ shortEnums = FALSE
    /\ servo = initialize(ServoInit).s
    /\ pwmWrites = initialize(ServoInit).w
    /\ ghost = GhostInit
    /\ RegistryInit
    /\ FrameworkInit
    /\ op = [name |-> "initialize"]
    /\ ret = 0
    /\ now = 0

NextMoveLive ==
    \/ SetSpeed
    \/ MoveTo \/ MoveToWithEasing \/ MoveWithSpeed
    \/ Update
    \/ Tick

SpecMoveLive ==
    InitReady /\ [][NextMoveLive]_vars /\ WF_vars(Update) /\ WF_vars(Tick)

\* The servo of the examples: initialized, then calibrateBySteps(110, 540)
\* with the default angles 0 and 180.
InitStepCalibrated ==
    /\ EventBusInit
    /\ shortEnums = FALSE
    /\ servo = calibrateBySteps(initialize(ServoInit).s, 110, 540, 0, 180).s
    /\ pwmWrites = <<>>
    /\ ghost = GhostInit
    /\ RegistryInit
    /\ FrameworkInit
    /\ op = [name |-> "calibrateBySteps"]
    /\ ret = 0
    /\ now = 0

\* Calibration calls on a calibrated servo, and immediate sets.
NextRecalibrate ==
    \/ Configure
    \/ Calibrate
    \/ CalibrateByStepsAny
    \/ SetValueAny

SpecRecalibrate == InitStepCalibrated /\ [][NextRecalibrate]_vars

\* The lifecycle calls of a servo, with immediate sets between them.
NextLifecycle ==
    \/ Initialize \/ Shutdown
    \/ Enable \/ Disable
    \/ SetValue
    \/ Update
    \/ Tick

SpecLifecycle == InitServo /\ [][NextLifecycle]_vars

\* One step calibration followed by immediate sets.
SpecStepCalibration == InitServo /\ [][NextStepCalibration]_vars

\* The easing functions on their own.
SpecEasing == InitServo /\ [][ApplyEasing]_vars

\* The registry holds devices and never touches the bus.
NextRegistry ==
    \/ RegisterDevice
    \/ UnregisterDevice
    \/ UnregisterAll
    \/ FindDevice
    \/ FindDeviceByName
    \/ FindDevices
    \/ GetInputDevice
    \/ GetOutputDevice
    \/ InitializeAll

SpecRegistry == InitServo /\ [][NextRegistry]_vars

\* The bulk operations over devices the application switches on and off.
NextRegistryBulk ==
    \/ RegisterDevice
    \/ InitializeAll
    \/ UpdateAll
    \/ DeviceDisable
    \/ DeviceEnable

SpecRegistryBulk == InitServo /\ [][NextRegistryBulk]_vars

\* Filtered selection over devices in several states.
NextRegistryFilter ==
    \/ RegisterDevice
    \/ InitializeAll
    \/ FindDevices
    \/ ForEach

SpecRegistryFilter == InitServo /\ [][NextRegistryFilter]_vars

\* Traversals before and after removals.
NextRegistryOrder ==
    \/ RegisterDevice
    \/ UnregisterDevice
    \/ FindDevices
    \/ ForEach
    \/ UpdateAll

SpecRegistryOrder == InitServo /\ [][NextRegistryOrder]_vars

\* The framework cycle over a bus with deferred events and a registry.
NextFramework ==
    \/ FrameworkInitialize
    \/ FrameworkUpdate
    \/ RegisterDevice
    \/ PublishAsync

SpecFramework == InitServo /\ [][NextFramework]_vars

\* ================================================================ claims
\* The events waiting in the ring buffer, oldest first.
QueueContents ==
    [k \in 1 .. queueSize |-> eventQueue[(queueHead + k - 1) % MAX_EVENT_QUEUE]]

TierOrder == <<PRIORITY_CRITICAL, PRIORITY_HIGH, PRIORITY_NORMAL, PRIORITY_LOW>>

\* What one dispatch is required to invoke: the active subscriptions of the
\* event's name, tier by tier from Critical to Low, slots ascending.
RequiredDispatch(ls, event, d) ==
    LET grid == [n \in 1 .. (4 * MAX_EVENT_LISTENERS) |->
                    [tier |-> TierOrder[((n - 1) \div MAX_EVENT_LISTENERS) + 1],
                     i |-> (n - 1) % MAX_EVENT_LISTENERS]]
        Wanted(g) == /\ ls[g.i].active
                     /\ ls[g.i].eventName = event.name
                     /\ ls[g.i].priority = g.tier
        hits == SelectSeq(grid, Wanted)
    IN  [n \in 1 .. Len(hits) |-> [dispatch |-> d, slot |-> hits[n].i, event |-> event]]

RECURSIVE RequiredDrain(_, _, _)
RequiredDrain(ls, events, d) ==
    IF events = <<>> THEN <<>>
    ELSE RequiredDispatch(ls, Head(events), d) \o RequiredDrain(ls, Tail(events), d + 1)

TimesInvoked(log, i) == Cardinality({n \in 1 .. Len(log) : log[n].slot = i})

DropLogged == logCalls = <<"Event queue full, dropping event">>

Called(name) == now' = now /\ op'.name = name

Clamped(s, angle) ==
    IF angle < s.minAngle THEN s.minAngle
    ELSE IF angle > s.maxAngle THEN s.maxAngle ELSE angle

Animating(s) ==
    /\ s.enabled
    /\ s.state = STATE_READY
    /\ ~s.isPaused
    /\ s.animationDuration > 0

\* C5: every write the Servo makes to its PWM driver hands one event to the
\* Event Bus (published at once or queued).
C5_WritePublishesMoved ==
    [][(now' = now /\ servo' # servo /\ Len(pwmWrites') > 0) =>
         totalEventCount' + queueSize'
            = totalEventCount + queueSize + Len(pwmWrites')]_vars

\* C6: every value written to the driver is the PWM value of an angle within
\* [minAngle, maxAngle] of the calibration in force, and after the write
\* getValue() is that angle.
C6_WritesClamped ==
    /\ \A n \in 1 .. Len(pwmWrites) :
          /\ servo.minAngle <= pwmWrites[n].angle
          /\ pwmWrites[n].angle <= servo.maxAngle
          /\ pwmWrites[n].value = mapAngleToPWM(servo, pwmWrites[n].angle)
    /\ Len(pwmWrites) > 0 =>
          /\ getValue(servo) = pwmWrites[Len(pwmWrites)].angle
          /\ servo.minAngle <= getValue(servo)
          /\ getValue(servo) <= servo.maxAngle

C6_Witness ==
    /\ op.name = "update"
    /\ Len(pwmWrites) = 1
    /\ isMoving(servo)
    /\ ghost.calibrations > 0
    /\ servo.targetAngle > servo.maxAngle
    /\ getValue(servo) = servo.maxAngle

\* C7 as claimed: an update() of an animating Servo whose elapsed time has
\* reached the duration leaves it Idle with getValue() equal to the target.
C7_SnapsToTarget ==
    [][(Called("update") /\ Animating(servo)
          /\ Elapsed(servo, now) >= servo.animationDuration) =>
         /\ ~isMoving(servo')
         /\ getValue(servo') = servo.targetAngle]_vars

\* C7 amended: such an update() leaves the Servo Idle with getValue() equal
\* to the target clamped to [minAngle, maxAngle].
C7_SnapsToClampedTarget ==
    [][(Called("update") /\ Animating(servo)
          /\ Elapsed(servo, now) >= servo.animationDuration) =>
         /\ ~isMoving(servo')
         /\ Len(pwmWrites') = 1
         /\ getValue(servo') = Clamped(servo, servo.targetAngle)]_vars

C7_Witness ==
    /\ op.name = "update"
    /\ Len(pwmWrites) = 1
    /\ ~isMoving(servo)
    /\ servo.easingType = EASE_OUT_CUBIC
    /\ servo.startAngle # getValue(servo)
    /\ servo.targetAngle > servo.maxAngle
    /\ getValue(servo) = servo.maxAngle
    /\ now - servo.animationStart - servo.pausedDuration >= 2

\* C8: the elapsed time update() works with is the time the animation has
\* spent un-paused since its move began; while paused it is frozen at the
\* value it had when pause() was called.
C8_ElapsedExcludesPauses ==
    isMoving(servo) =>
        IF servo.isPaused
        THEN servo.pausedAt - servo.animationStart - servo.pausedDuration
                = ghost.activeElapsed
        ELSE Elapsed(servo, now) = ghost.activeElapsed

C8_Witness ==
    /\ op.name = "update"
    /\ Len(pwmWrites) = 1
    /\ isMoving(servo)
    /\ ghost.resumes = 2
    /\ servo.pausedDuration > 0
    /\ ghost.activeElapsed > 0

\* C9: pause() on a paused or Idle Servo and resume() on a Servo that is
\* not paused change nothing and write nothing.
C9_PauseResumeNoOps ==
    [][(\/ Called("pause") /\ (servo.isPaused \/ servo.animationDuration = 0)
        \/ Called("resume") /\ ~servo.isPaused) =>
         /\ servo' = servo
         /\ pwmWrites' = <<>>]_vars

C9_Witness ==
    /\ op.name = "pause"
    /\ servo.isPaused
    /\ servo.pausedAt < now
    /\ servo.pausedDuration > 0

\* C10: stop() leaves the Servo Idle and not paused, writes nothing and
\* keeps getValue(); an update() or another stop() after it changes nothing.
C10_StopKeepsValue ==
    [][/\ Called("stop") =>
            /\ ~isMoving(servo')
            /\ ~servo'.isPaused
            /\ pwmWrites' = <<>>
            /\ getValue(servo') = getValue(servo)
       /\ (Called("update") /\ op.name = "stop") =>
            /\ pwmWrites' = <<>>
            /\ servo' = servo
       /\ (Called("stop") /\ op.name = "stop") => servo' = servo]_vars

C10_Witness ==
    /\ op.name = "stop"
    /\ ~isMoving(servo)
    /\ pwmWrites = <<>>
    /\ now > servo.animationStart
    /\ \/ servo.startAngle < getValue(servo)
          /\ getValue(servo) < Clamped(servo, servo.targetAngle)
       \/ servo.startAngle > getValue(servo)
          /\ getValue(servo) > Clamped(servo, servo.targetAngle)

\* ------------------------------------------------- registry and framework
\* The registered devices in registration order.
RegisteredSeq == [k \in 1 .. deviceCount |-> devices[k - 1]]

RegisteredSlots == {i \in 0 .. deviceCount - 1 : devices[i] # NULL}

MethodCalls(ds, method) == [k \in 1 .. Len(ds) |-> [device |-> ds[k], method |-> method]]

\* C11: an initialized framework's update() calls Registry.updateAll() and
\* then Bus.processEvents(), each exactly once, in that order.
C11_UpdateAllBeforeProcessEvents ==
    [][(op'.name = "framework.update" /\ initialized) =>
          cycle' = <<"updateAll", "processEvents">>]_vars

\* C12: registerDevice returns false and leaves the table, its order and the
\* count unchanged for a null device, a full table or an id already
\* registered; otherwise it returns true and appends the device.
C12_RegisterRejects ==
    [][op'.name = "registerDevice" =>
        LET d == op'.device
            rejected == \/ d = NULL
                        \/ deviceCount >= MAX_DEVICES
                        \/ \E i \in RegisteredSlots :
                              getInfo(devices[i]).id = getInfo(d).id
        IN  IF rejected
            THEN ret' = FALSE /\ UNCHANGED <<devices, deviceCount>>
            ELSE /\ ret' = TRUE
                 /\ deviceCount' = deviceCount + 1
                 /\ devices'[deviceCount] = d
                 /\ \A i \in DeviceSlots : i # deviceCount => devices'[i] = devices[i]]_vars

C12_Witness ==
    /\ op.name = "registerDevice"
    /\ ret = FALSE
    /\ op.device # NULL
    /\ deviceCount < MAX_DEVICES
    /\ \E i \in RegisteredSlots : /\ devices[i] # op.device
                                  /\ getInfo(devices[i]).id = getInfo(op.device).id

\* C13: no id is registered twice, the registered devices fill exactly the
\* slots 0 .. _deviceCount-1 and _deviceCount never exceeds MAX_DEVICES.
C13_RegistryWellFormed ==
    /\ deviceCount <= MAX_DEVICES
    /\ \A i \in DeviceSlots : (i < deviceCount) <=> (devices[i] # NULL)
    /\ \A i, j \in RegisteredSlots :
          i # j => getInfo(devices[i]).id # getInfo(devices[j]).id

C13_Witness ==
    /\ op.name = "unregisterDevice"
    /\ ret = TRUE
    /\ deviceCount = MAX_DEVICES - 1
    /\ devices[deviceCount] = NULL
    /\ \A i \in 0 .. deviceCount - 1 : getInfo(devices[i]).id > op.id

BothCount ==
    Cardinality({i \in RegisteredSlots : /\ hasCapability(devices[i], CAP_INPUT)
                                         /\ hasCapability(devices[i], CAP_OUTPUT)})

NeitherCount ==
    Cardinality({i \in RegisteredSlots : /\ ~hasCapability(devices[i], CAP_INPUT)
                                         /\ ~hasCapability(devices[i], CAP_OUTPUT)})

\* C14: the device count is the input count plus the output count minus the
\* number of registered devices that are both.
C14_CountIsInputPlusOutput ==
    getDeviceCount = getInputDeviceCount + getOutputDeviceCount - BothCount

\* C14 amended: the same with the registered devices that are neither input
\* nor output added.
C14_CountWithNeither ==
    getDeviceCount = getInputDeviceCount + getOutputDeviceCount - BothCount + NeitherCount

C14_Witness ==
    /\ deviceCount = MAX_DEVICES
    /\ BothCount >= 1
    /\ NeitherCount >= 1
    /\ op.name = "registerDevice"
    /\ ret = TRUE

\* C15: updateAll calls update() once on each enabled registered device, in
\* registration order, and on no disabled device.
C15_UpdateAllEnabledInOrder ==
    [][op'.name = "updateAll" =>
          deviceCalls' = MethodCalls(SelectSeq(RegisteredSeq,
                                               LAMBDA d : deviceObj[d].enabled),
                                     "update")]_vars

C15_Witness ==
    /\ op.name = "updateAll"
    /\ deviceCount = MAX_DEVICES
    /\ ~deviceObj[devices[0]].enabled
    /\ Len(deviceCalls) = deviceCount - 1
    /\ deviceCalls[1].device = devices[1]

\* C16: initializeAll calls initialize() once on every registered device, in
\* order, whether or not an earlier one failed, and returns false exactly
\* when one of them failed.
C16_InitializeAllContinues ==
    [][op'.name = "initializeAll" =>
          /\ deviceCalls' = MethodCalls(RegisteredSeq, "initialize")
          /\ ret' = (\A i \in RegisteredSlots : InitializeSucceeds(devices[i]))]_vars

C16_Witness ==
    /\ op.name = "initializeAll"
    /\ ret = FALSE
    /\ Len(deviceCalls) = 2
    /\ ~InitializeSucceeds(deviceCalls[1].device)
    /\ InitializeSucceeds(deviceCalls[2].device)
    /\ deviceObj[deviceCalls[2].device].state = STATE_READY

\* C17: getInputDevice / getOutputDevice return the registered device of the
\* id when it has the Input / Output capability, and null otherwise.
C17_TypedAccessChecksCapability ==
    [][op'.name \in {"getInputDevice", "getOutputDevice"} =>
        LET cap == IF op'.name = "getInputDevice" THEN CAP_INPUT ELSE CAP_OUTPUT
            holders == {i \in RegisteredSlots :
                           /\ getInfo(devices[i]).id = op'.id
                           /\ hasCapability(devices[i], cap)}
        IN  IF holders = {} THEN ret' = NULL
            ELSE \E i \in holders : ret' = devices[i]]_vars

C17_Witness ==
    /\ op.name = "getInputDevice"
    /\ ret = NULL
    /\ \E i \in RegisteredSlots : /\ getInfo(devices[i]).id = op.id
                                  /\ ~hasCapability(devices[i], CAP_INPUT)

\* C18: findDevices stores the first maxResults matching devices in
\* registration order and returns the number of registered devices that
\* match the filter.
C18_FindDevicesReturnsMatchCount ==
    [][op'.name = "findDevices" =>
        LET matching == SelectSeq(RegisteredSeq,
                                  LAMBDA d : matchesFilter(d, op'.filter))
            stored == IF Len(matching) < op'.maxResults THEN Len(matching)
                      ELSE op'.maxResults
        IN  /\ results' = SubSeq(matching, 1, stored)
            /\ ret' = Len(matching)]_vars

\* C19: findDeviceByName returns the earliest registered device of that
\* name, or null for no match or a null name; findDevice returns the device
\* of the id or null; neither changes the registry.
C19_FindReturnsEarliest ==
    [][op'.name \in {"findDeviceByName", "findDevice"} =>
        LET hits == IF op'.name = "findDevice"
                    THEN {i \in RegisteredSlots : getInfo(devices[i]).id = op'.id}
                    ELSE {i \in RegisteredSlots :
                             op'.arg # NULL /\ getInfo(devices[i]).name = op'.arg}
        IN  /\ IF hits = {} THEN ret' = NULL
               ELSE \E i \in hits : /\ ret' = devices[i]
                                    /\ \A j \in hits : i <= j
            /\ UNCHANGED <<devices, deviceCount, deviceObj>>]_vars

C19_Witness ==
    /\ op.name = "findDeviceByName"
    /\ deviceCount >= 2
    /\ getInfo(devices[0]).name = op.arg
    /\ getInfo(devices[1]).name = op.arg
    /\ ret = devices[0]

\* C20: subscribe returns 0 and leaves the table, the listener count and the
\* id counter unchanged when every slot is active or when the name or the
\* callback is null or empty; otherwise it returns a non-zero id and adds
\* exactly one active subscription with the given name, callback, priority.
C20_SubscribeRejects ==
    [][op'.name = "subscribe" =>
        LET full == \A i \in ListenerSlots : listeners[i].active
            rejected == \/ full
                        \/ op'.eventName \in {NULL, ""}
                        \/ op'.listener = NULL
        IN  IF rejected
            THEN ret' = 0 /\ UNCHANGED <<listeners, listenerCount, nextListenerId>>
            ELSE /\ ret' # 0
                 /\ \E i \in ListenerSlots :
                       /\ ~listeners[i].active
                       /\ listeners'[i] = [id |-> ret', eventName |-> op'.eventName,
                                           callback |-> op'.listener,
                                           priority |-> op'.priority, active |-> TRUE]
                       /\ \A j \in ListenerSlots : j # i => listeners'[j] = listeners[j]]_vars

\* ------------------------------------------------ subscription identity
BusState == <<listeners, listenerCount, nextListenerId, eventQueue, queueHead,
              queueTail, queueSize, totalEventCount>>

Holders(id) == {i \in ListenerSlots : listeners[i].active /\ listeners[i].id = id}

\* C21: unsubscribe with an id of no active subscription, or with 0, changes
\* nothing; with a known id it deactivates that one subscription and no
\* other, after which the id is unknown (a second call is a no-op); publish
\* invokes no deactivated subscription.
C21_UnsubscribeExact ==
    [][/\ op'.name = "unsubscribe" =>
            LET id == op'.listenerId IN
            IF id = 0 \/ Holders(id) = {}
            THEN UNCHANGED BusState
            ELSE /\ \E i \in Holders(id) :
                       /\ ~listeners'[i].active
                       /\ \A j \in ListenerSlots : j # i => listeners'[j] = listeners[j]
                 /\ \A i \in ListenerSlots :
                       ~(listeners'[i].active /\ listeners'[i].id = id)
       /\ op'.name = "publish" =>
            \A n \in 1 .. Len(calls') : listeners[calls'[n].slot].active]_vars

\* C22: unsubscribeAll(eventName) deactivates every active subscription of
\* exactly that name, leaves every other slot as it was, and lowers the
\* listener count by the number removed.
C22_UnsubscribeAllExact ==
    [][op'.name = "unsubscribeAll" =>
        LET hit == {i \in ListenerSlots :
                       listeners[i].active /\ listeners[i].eventName = op'.eventName}
        IN  /\ \A i \in ListenerSlots :
                  IF i \in hit THEN ~listeners'[i].active
                  ELSE listeners'[i] = listeners[i]
            /\ listenerCount' = listenerCount - Cardinality(hit)]_vars

C22_Witness ==
    /\ op.name = "unsubscribeAll"
    /\ op.eventName = "servo.moved"
    /\ listenerCount = 1
    /\ ~listeners[0].active
    /\ listeners[1].active
    /\ listeners[1].eventName = "servo.move.complete"
    /\ logCalls = <<"Unsubscribing all">>

\* C23: publish of an event whose name is null or the empty string invokes
\* no subscriber and changes no bus state, the event counter included.
C23_EmptyNamePublishNoOp ==
    [][(op'.name = "publish" /\ op'.event.name \in {NULL, ""}) =>
          /\ calls' = <<>>
          /\ UNCHANGED BusState]_vars

C27_IdsUniqueNonZero ==
    [][(op'.name = "subscribe" /\ listeners' # listeners) =>
          /\ ret' # 0
          /\ Holders(ret') = {}]_vars

\* C28: a successful subscribe takes the lowest-index inactive slot, subscribe
\* with valid arguments succeeds whenever a slot is inactive, and each id
\* returned is greater than every id returned before.
C28_LowestFreeSlotReused ==
    [][(op'.name = "subscribe" /\ op'.eventName # NULL /\ op'.listener # NULL
          /\ \E i \in ListenerSlots : ~listeners[i].active) =>
        LET free == {i \in ListenerSlots : ~listeners[i].active}
            lowest == CHOOSE i \in free : \A j \in free : i <= j
        IN  /\ listeners'[lowest].active
            /\ listeners'[lowest].id = ret'
            /\ \A j \in ListenerSlots : j # lowest => listeners'[j] = listeners[j]
            /\ ret' = nextListenerId
            /\ nextListenerId' > nextListenerId]_vars

C24_StepEndpointsExact ==
    servo.useStepMode =>
        \A n \in 1 .. Len(pwmWrites) :
            /\ pwmWrites[n].value >= servo.stepMin
            /\ pwmWrites[n].value <= servo.stepMax
            /\ pwmWrites[n].angle = servo.minAngle => pwmWrites[n].value = servo.stepMin
            /\ pwmWrites[n].angle = servo.maxAngle => pwmWrites[n].value = servo.stepMax

C24_Witness ==
    /\ servo.useStepMode
    /\ op.name = "setValue"
    /\ op.angle = servo.maxAngle
    /\ servo.maxAngle = 150
    /\ Len(pwmWrites) = 1
    /\ pwmWrites[1].value = 600

\* C25: every easing function returns a value in [0,1], 0 for t <= 0 and 1
\* for t >= 1; a selector that is none of the six gives the clamped t.
C25_EasingInUnitRange ==
    op.name = "applyEasing" =>
        /\ ret.den > 0
        /\ 0 <= ret.num /\ ret.num <= ret.den
        /\ op.tn <= 0 => ret.num = 0
        /\ op.tn >= op.td => ret.num = ret.den
        /\ op.type = "EASE_UNKNOWN" =>
              \/ op.tn < 0 /\ ret.num = 0
              \/ op.tn > op.td /\ ret.num = ret.den
              \/ ret.num * op.td = op.tn * ret.den

C25_Witness ==
    /\ op.name = "applyEasing"
    /\ op.type = EASE_IN_OUT_QUAD
    /\ 2 * op.tn = op.td
    /\ 2 * ret.num = ret.den

\* ------------------------------------------------------- device filters
\* Every criterion of the filter holds, the state compared for every value.
MatchesExactly(d, filter) ==
    /\ filter.type # NULL => getInfo(d).type = filter.type
    /\ filter.capabilities # {} => getInfo(d).capabilities \cap filter.capabilities # {}
    /\ deviceObj[d].state = filter.state

\* C30: findDevices (with room for every device) and forEach(filter, cb)
\* select exactly the registered devices for which every criterion of the
\* filter holds, the state criterion being equality for every DeviceState
\* value including Uninitialized.
C30_FilterSelectsExactMatches ==
    /\ op.name = "findDevices" /\ op.maxResults >= deviceCount =>
          results = SelectSeq(RegisteredSeq, LAMBDA d : MatchesExactly(d, op.filter))
    /\ op.name = "forEach" /\ op.callback # NULL =>
          results = SelectSeq(RegisteredSeq, LAMBDA d : MatchesExactly(d, op.filter))

C32_UpdateIdleOrPausedNoOp ==
    [][/\ op'.name = "update"
       /\ now' = now
       /\ servo.animationDuration = 0 \/ servo.isPaused
       => /\ pwmWrites' = <<>>
          /\ servo' = servo]_vars

\* update() was called on a ready servo paused past the end of its animation.
C32_Witness ==
    /\ op.name = "update"
    /\ servo.enabled /\ servo.state = STATE_READY
    /\ servo.isPaused
    /\ servo.animationDuration > 0
    /\ Elapsed(servo, now) >= servo.animationDuration
    /\ servo.currentAngle # servo.targetAngle
    /\ pwmWrites = <<>>

\* ------------------------------------------------- re-entrant subscribers
\* C33: every call of processEvents() returns, its while loop ending after
\* finitely many dispatches, also when subscribers call publishAsync while
\* the queue is being drained.
C33_ProcessEventsTerminates ==
    [][op'.name = "processEvents" => ~hung']_vars

\* The target clamped to the calibrated range.
ClampedTarget(s, target) ==
    IF target < s.minAngle THEN s.minAngle
    ELSE IF target > s.maxAngle THEN s.maxAngle ELSE target

\* C34: when exactly one move command (moveTo, moveToWithEasing or
\* moveWithSpeed, of any duration including 0) has been given to a ready
\* servo and update() keeps being called as time advances, the servo ends
\* Idle at the clamped target, unless the animation ends beyond the time
\* horizon.
C34_MoveEventuallyArrives ==
    <>[](ghost.moves = 1 =>
            \/ /\ ~isMoving(servo)
               /\ getValue(servo) = ClampedTarget(servo, ghost.target)
            \/ /\ isMoving(servo)
               /\ servo.animationStart + servo.animationDuration > MaxTime)

\* C35: an immediate set issued while the servo is animating leaves it not
\* moving (so no later update() overwrites the value set), and a moveTo or
\* moveToWithEasing issued at any time starts from the current value with the
\* paused flag and the accumulated paused duration cleared.
C35_CommandReplacesAnimation ==
    [][/\ (op'.name \in {"setValue", "setAngle", "setNormalized"}
           /\ now' = now /\ pwmWrites' # <<>> /\ isMoving(servo))
          => ~isMoving(servo')
       /\ (op'.name \in {"moveTo", "moveToWithEasing"} /\ servo' # servo)
          => /\ servo'.startAngle = servo.currentAngle
             /\ ~servo'.isPaused
             /\ servo'.pausedDuration = 0]_vars

\* C36: while the servo stays paused getProgress() and getRemainingTime() do
\* not change as time advances; getProgress() is always within [0,1]; an Idle
\* servo reports progress 1 and remaining time 0.
C36_ProgressFrozenWhilePaused ==
    [][LET before == getProgress(servo, now)
           after == getProgress(servo', now')
       IN  /\ (servo.isPaused /\ servo' = servo) =>
                /\ after.num * before.den = before.num * after.den
                /\ getRemainingTime(servo', now') = getRemainingTime(servo, now)
           /\ 0 <= after.num /\ after.num <= after.den /\ after.den > 0
           /\ ~isMoving(servo') =>
                /\ after.num = after.den
                /\ getRemainingTime(servo', now') = 0]_vars

\* C37: the calibration mode is that of the most recent calibrate or
\* calibrateBySteps call, the angle span mapAngleToPWM divides by in step
\* mode is maxAngle - minAngle of the current calibration, and in step mode
\* a write at maxAngle is stepMax and a write at minAngle is stepMin.
C37_CalibrationConsistent ==
    /\ op.name = "calibrate" => ~servo.useStepMode
    /\ op.name = "calibrateBySteps" => servo.useStepMode
    /\ servo.useStepMode =>
          /\ servo.angleRange = servo.maxAngle - servo.minAngle
          /\ \A n \in 1 .. Len(pwmWrites) :
                /\ pwmWrites[n].angle = servo.maxAngle => pwmWrites[n].value = servo.stepMax
                /\ pwmWrites[n].angle = servo.minAngle => pwmWrites[n].value = servo.stepMin

\* ---------------------------------------------------------------- lifecycle
\* C38: the state changes only from Uninitialized to Ready (through
\* Initializing, inside initialize()), from Ready to Disabled and from
\* Disabled to Ready, so that a servo is Ready only after initialize() and
\* enable() never makes a never-initialized servo Ready; a Disabled servo is
\* not enabled.
C38_LifecycleTransitions ==
    [][/\ servo'.state # servo.state =>
            \/ /\ op'.name = "initialize"
               /\ servo.state = STATE_UNINITIALIZED
               /\ servo'.state = STATE_READY
            \/ servo.state = STATE_READY /\ servo'.state = STATE_DISABLED
            \/ servo.state = STATE_DISABLED /\ servo'.state = STATE_READY
       /\ servo'.state = STATE_DISABLED => ~isEnabled(servo')]_vars

\* ------------------------------------------------------------ ring buffer
\* The slots holding the n events that follow slot h.
Occupied(h, n) == {(h + k) % MAX_EVENT_QUEUE : k \in 0 .. n - 1}

QueueWellFormed ==
    /\ queueSize \in 0 .. MAX_EVENT_QUEUE
    /\ queueHead \in QueueSlots
    /\ queueTail \in QueueSlots
    /\ queueTail = (queueHead + queueSize) % MAX_EVENT_QUEUE

\* C39: the size is within 0 .. MAX_EVENT_QUEUE, head and tail are valid
\* indices and tail = (head + size) mod MAX_EVENT_QUEUE in every state; an
\* enqueue writes a slot that holds no waiting event and leaves the waiting
\* events as they are, and a processEvents that returns has dispatched each
\* waiting event once and left the queue empty.
C39_RingBufferConsistent ==
    [][/\ QueueWellFormed
       /\ QueueWellFormed'
       /\ (op'.name = "publishAsync" /\ queueTail' # queueTail) =>
             /\ queueSize' = queueSize + 1
             /\ queueTail \notin Occupied(queueHead, queueSize)
             /\ \A i \in Occupied(queueHead, queueSize) : eventQueue'[i] = eventQueue[i]
             /\ eventQueue'[queueTail].name = op'.event.name
       /\ (op'.name = "processEvents" /\ ~hung') =>
             /\ queueSize' = 0
             /\ totalEventCount' = totalEventCount + queueSize
             /\ calls' = RequiredDrain(listeners, QueueContents, 1)]_vars

\* The ring has wrapped: an event was stored in the last slot, after an
\* earlier one was delivered, and the tail is back at slot 0.
C39_Witness ==
    /\ op.name = "publishAsync"
    /\ queueSize > 0
    /\ queueHead + queueSize = MAX_EVENT_QUEUE
    /\ queueTail = 0
    /\ totalEventCount > 0
    /\ eventQueue[MAX_EVENT_QUEUE - 1].name = op.event.name

\* --------------------------------------------------------- listener table
ActiveSlots == {i \in ListenerSlots : listeners[i].active}

ListenersWellFormed ==
    /\ getListenerCount = Cardinality(ActiveSlots)
    /\ getListenerCount <= MAX_EVENT_LISTENERS
    /\ \A i \in ListenerSlots \ ActiveSlots :
          /\ listeners[i].id = 0
          /\ listeners[i].eventName = NULL
          /\ listeners[i].callback = NULL

\* C40: the listener count is the number of active slots and at most
\* MAX_EVENT_LISTENERS, an inactive slot has id 0 and neither name nor
\* callback, and a subscribe with a name and a listener fails (stores no
\* subscription) exactly when every slot is active, in which case it
\* returns 0.
C40_ListenerTableConsistent ==
    [][/\ ListenersWellFormed
       /\ ListenersWellFormed'
       /\ (op'.name = "subscribe" /\ op'.eventName # NULL /\ op'.listener # NULL) =>
             /\ listeners' = listeners <=> ActiveSlots = ListenerSlots
             /\ listeners' = listeners => ret' = 0
             /\ listeners' # listeners =>
                   Cardinality({i \in ListenerSlots : listeners'[i].active})
                      = Cardinality(ActiveSlots) + 1]_vars

\* A subscribe with a name and a listener was refused by a full table in
\* which a slot had been freed and taken again.
C40_Witness ==
    /\ op.name = "subscribe"
    /\ op.eventName # NULL /\ op.listener # NULL
    /\ ret = 0
    /\ ActiveSlots = ListenerSlots
    /\ getListenerCount = MAX_EVENT_LISTENERS
    /\ \E i, j \in ListenerSlots : i < j /\ listeners[i].id > listeners[j].id

====
